---------------------------- MODULE Spec2Model ----------------------------
(***************************************************************************)
(* Connection multiplexer (cmux): the route table, the accept loop of      *)
(* Serve, the per-connection worker serve, the child listeners' Accept and *)
(* the sniffing connection MuxConn with its replay buffer.                 *)
(***************************************************************************)
EXTENDS Integers, Sequences, FiniteSets, TLC

(***************************************************************************)
(* Bounds of the model.                                                    *)
(***************************************************************************)
\* connections the root listener offers
NumConns == 2
\* largest queue capacity handed to NewSize (0 is the synchronous hand-off)
MaxBufLen == 1
\* largest slice the downstream owner passes to MuxConn.Read
MaxRead == 3
\* buffer tests: most bytes written to the buffer, and most resetRead calls
MaxData == 3
MaxRounds == 2
\* patricia: longest candidate, most candidates, longest stream
MaxCand == 2
MaxSet == 3
MaxStream == 3

Conns == 1..NumConns

Min(a, b) == IF a < b THEN a ELSE b

Take(s, n) == SubSeq(s, 1, Min(n, Len(s)))

IsPrefix(s, t) == Len(s) <= Len(t) /\ SubSeq(t, 1, Len(s)) = s

\* the byte sequences a raw connection can produce before its end of stream
Streams == {<<1, 1>>, <<1, 2>>, <<2, 1>>}

(***************************************************************************)
(* Matchers.  A Matcher is a function over an io.Reader; the ones used     *)
(* here read like the repository's matchers do: io.ReadFull of n bytes     *)
(* from the sniffing view, then a test of the bytes obtained.              *)
(***************************************************************************)
\* a matcher that reads nothing and rejects
MNone == [n |-> 0, acc |-> {}]
\* a literal matcher: the connection starts with p
MLit(p) == [n |-> Len(p), acc |-> {p}]

\* the matcher lists handed to Match
MatcherLists ==
    { <<MNone, MLit(<<1, 1>>)>>, <<MLit(<<1>>)>> }

\* every list is registered at most once, which bounds the route table
MaxRoutes == Cardinality(MatcherLists)

\* what matcher m answers on a view that replays stream s from offset 0
Accepts(m, s) == Take(s, m.n) \in m.acc

VARIABLES
    sls,        \* cMux.sls: the routes, each the matcher list ss
    connc,      \* per route: muxListener.connc, the buffered part of the channel
    chClosed,   \* per route: connc has been closed
    bufLen,     \* cMux.bufLen
    errh,       \* cMux.errh: TRUE when the handler answers "continue"
    rootOpen,   \* the root listener has not been closed
    offered,    \* number of connections the root listener has returned
    servePc,    \* position of Serve: setup, accept, wait, returned
    serveErr,   \* the error Serve returns
    wg,         \* the WaitGroup counter of Serve
    raw,        \* per connection: the bytes the raw connection produces
    pos,        \* per connection: bytes already read from the raw connection
    connClosed, \* per connection: the Mux called Close on it
    buf,        \* per connection: MuxConn.buf, [data, read]
    wk,         \* per connection: the worker, [pc, ri, mi, got, mr, rerr]
    tried,      \* per connection: the matcher calls made, <<ri, mi, matched>>
    enq,        \* per connection: the routes it was sent to, in order
    reports,    \* per connection: ErrNotMatched reports to the handler
    acc,        \* per route: an Accept call is pending
    accepted,   \* per route: the connections Accept returned, in order
    accErr,     \* per route: an Accept call has returned ErrListenerClosed
    lclosed,    \* per route: Close has been called on the child listener
    down,       \* per connection: what the owner got from MuxConn.Read, the
                \* bytes, eof when the raw connection's Read reported EOF
                \* to it, and err, the error of the last call
    testBuf,    \* the buffer b of the buffer tests, [data, read]
    written,    \* buffer tests: the bytes of the Write calls, in order
    readBytes,  \* buffer tests: the bytes read since the last resetRead
    sawEOF,     \* buffer tests: a Read since the last resetRead reported EOF
    testPc,     \* buffer tests: "write" while writing, then "read"
    round,      \* buffer tests: the resetRead calls made
    cut,        \* buffer tests: a resetRead came in the middle of the data
    lastRead,   \* buffer tests: the last Read call, [asked, n, err, rest]:
                \* the slice length, the count and the error returned, and
                \* the bytes the call left unread
    ptBs,       \* patricia: the byte strings handed to newPatriciaTree
    ptTree,     \* patricia: the root node of the tree built from them
    ptStream,   \* patricia: the bytes of the reader handed to the matchers
    ptOut,      \* patricia: what matchPrefix and match returned on it
    ptPc,       \* patricia: "new", "built" (tree), then "stream" (reader)
    pxStream,   \* proxy header: the bytes the peer sends on the connection
    pxConn,     \* proxy header: the bytes not yet read from the net.Conn
    pxBuf,      \* proxy header: buf[:n], the bytes checkPrefix read
    pxBuffer,   \* proxy header: m.buf.buffer, the bytes kept for later reads
    srcAddr,    \* proxy header: m.srcAddr, [ip, port], nil as version 0
    dstAddr,    \* proxy header: m.dstAddr, [ip, port], nil as version 0
    pxErr,      \* proxy header: what checkPrefix returned, "none" before
    pxGot,      \* proxy header: the bytes the reads after checkPrefix returned
    pxPc,       \* proxy header: "new", "conn" (dialed), then "checked"
    donec,      \* done-channel version: the routes whose donec is closed
    atExit,     \* the queues of the routes as they were when Serve returned
    brStream,   \* bufferedReader: the bytes its source delivers in all
    brSource,   \* bufferedReader: the bytes not yet read from source
    brPulled,   \* bufferedReader: the bytes read from source so far
    brSrc,      \* bufferedReader: src, "nil", "tee" (TeeReader) or "source"
    brBuf,      \* bufferedReader: the bytes of buf
    brRbuf,     \* bufferedReader: rbuf
    brOff,      \* bufferedReader: off
    brOut,      \* bufferedReader: the bytes the Reads returned since the
                \* last reset, after reset(false) since the first of them
    brHist,     \* bufferedReader: [made, off, panic]: it was created,
                \* reset(false) was called, a Read met a nil src
    ptMu,       \* patricia: the caller that holds t.mu, 0 when unlocked
    ptMuBuf,    \* patricia: t.mu.buf, the shared buffer of the matchers
    ptCall,     \* patricia: per caller, its call [pc, prefix, n, out]
    ptArrived,  \* patricia: per caller, the bytes its reader has and the
                \* call has not read yet
    ptEof,      \* patricia: per caller, its reader is at its end
    ptTook      \* patricia: per caller, the bytes its call read

vars == <<sls, connc, chClosed, bufLen, errh, rootOpen, offered, servePc,
          serveErr, wg, raw, pos, connClosed, buf, wk, tried, enq, reports,
          acc, accepted, accErr, lclosed, down, testBuf, written, readBytes,
          sawEOF, testPc, round, cut, lastRead, ptBs, ptTree, ptStream,
          ptOut, ptPc, pxStream, pxConn, pxBuf, pxBuffer, srcAddr, dstAddr,
          pxErr, pxGot, pxPc, donec, atExit, brStream, brSource, brPulled,
          brSrc, brBuf, brRbuf, brOff, brOut, brHist, ptMu, ptMuBuf, ptCall,
          ptArrived, ptEof, ptTook>>

muxVars == <<sls, bufLen, errh>>
chanVars == <<connc, chClosed>>
serveVars == <<servePc, serveErr, wg, offered>>
connVars == <<raw, pos, buf, down>>
histVars == <<tried, enq, reports>>
accVars == <<acc, accepted, accErr, lclosed>>
mainVars == <<muxVars, chanVars, rootOpen, serveVars, connVars, connClosed,
              wk, histVars, accVars>>
bufVars == <<testBuf, written, readBytes, sawEOF, testPc, round, cut,
             lastRead>>
ptVars == <<ptBs, ptTree, ptStream, ptOut, ptPc>>
pxVars == <<pxStream, pxConn, pxBuf, pxBuffer, srcAddr, dstAddr, pxErr,
            pxGot, pxPc>>
dVars == <<donec>>
qVars == <<atExit>>
brVars == <<brStream, brSource, brPulled, brSrc, brBuf, brRbuf, brOff, brOut,
            brHist>>
pcVars == <<ptMu, ptMuBuf, ptCall, ptArrived, ptEof, ptTook>>
xVars == <<qVars, brVars, pcVars>>
testVars == <<bufVars, ptVars, pxVars, dVars, xVars>>

Routes == 1..Len(sls)

NoWorker == [pc |-> "none", ri |-> 1, mi |-> 1, got |-> <<>>, mr |-> 1,
             rerr |-> FALSE]

\* a Mux of queue capacity n bound to the root listener, no route, default
\* handler
InitWith(n) ==
    /\ sls = <<>>
    /\ connc = <<>>
    /\ chClosed = <<>>
    /\ bufLen = n
    /\ errh = TRUE
    /\ rootOpen = TRUE
    /\ offered = 0
    /\ servePc = "setup"
    /\ serveErr = "none"
    /\ wg = 0
    /\ raw = [c \in Conns |-> <<>>]
    /\ pos = [c \in Conns |-> 0]
    /\ connClosed = [c \in Conns |-> FALSE]
    /\ buf = [c \in Conns |-> [data |-> <<>>, read |-> 0]]
    /\ wk = [c \in Conns |-> NoWorker]
    /\ tried = [c \in Conns |-> <<>>]
    /\ enq = [c \in Conns |-> <<>>]
    /\ reports = [c \in Conns |-> 0]
    /\ acc = <<>>
    /\ accepted = <<>>
    /\ accErr = <<>>
    /\ lclosed = <<>>
    /\ down = [c \in Conns |-> [bytes |-> <<>>, eof |-> FALSE, err |-> "nil"]]
    /\ testBuf = [data |-> <<>>, read |-> 0]
    /\ written = <<>>
    /\ readBytes = <<>>
    /\ sawEOF = FALSE
    /\ testPc = "write"
    /\ round = 0
    /\ cut = FALSE
    /\ lastRead = [asked |-> 0, n |-> 0, err |-> "nil", rest |-> 0]
    /\ ptBs = <<>>
    /\ ptTree = [prefix |-> <<>>, terminal |-> FALSE, next |-> <<>>]
    /\ ptStream = <<>>
    /\ ptOut = [prefix |-> "none", full |-> "none"]
    /\ ptPc = "new"
    /\ pxStream = <<>>
    /\ pxConn = <<>>
    /\ pxBuf = <<>>
    /\ pxBuffer = <<>>
    /\ srcAddr = [ip |-> [v |-> 0, a |-> <<>>], port |-> 0]
    /\ dstAddr = [ip |-> [v |-> 0, a |-> <<>>], port |-> 0]
    /\ pxErr = "none"
    /\ pxGot = <<>>
    /\ pxPc = "new"
    /\ donec = {}
    /\ atExit = <<>>
    /\ brStream = <<>>
    /\ brSource = <<>>
    /\ brPulled = <<>>
    /\ brSrc = "nil"
    /\ brBuf = <<>>
    /\ brRbuf = <<>>
    /\ brOff = 0
    /\ brOut = <<>>
    /\ brHist = [made |-> FALSE, off |-> FALSE, panic |-> FALSE]
    /\ ptMu = 0
    /\ ptMuBuf = <<>>
    /\ ptCall = [c \in Conns |-> [pc |-> "idle", prefix |-> FALSE, n |-> 0,
                                  out |-> "none"]]
    /\ ptArrived = [c \in Conns |-> <<>>]
    /\ ptEof = [c \in Conns |-> FALSE]
    /\ ptTook = [c \in Conns |-> <<>>]

\* NewSize: the queue capacity is any of the capacities of the model
Init == \E n \in 0..MaxBufLen : InitWith(n)


(***************************************************************************)
(* Registration, before Serve.                                             *)
(***************************************************************************)
\* Match: a new route, its queue of capacity bufLen, appended to sls; the
\* routes are registered before Serve is called
Match(ms) ==
    /\ servePc = "setup"
    /\ \A r \in Routes : sls[r] # ms
    /\ sls' = Append(sls, ms)
    /\ connc' = Append(connc, <<>>)
    /\ chClosed' = Append(chClosed, FALSE)
    /\ acc' = Append(acc, FALSE)
    /\ accepted' = Append(accepted, <<>>)
    /\ accErr' = Append(accErr, FALSE)
    /\ lclosed' = Append(lclosed, FALSE)
    /\ UNCHANGED <<bufLen, errh, rootOpen, serveVars, connVars, connClosed,
                   wk, histVars,
                   testVars>>

\* HandleError: installs the handler h
HandleError(h) ==
    /\ servePc = "setup"
    /\ errh # h
    /\ errh' = h
    /\ UNCHANGED <<sls, bufLen, chanVars, rootOpen, serveVars, connVars,
                   connClosed, wk, histVars, accVars,
                   testVars>>

(***************************************************************************)
(* Errors and the error policy.                                            *)
(***************************************************************************)
\* the errors: a temporary and a permanent net.Error from the root listener,
\* an error that is no net.Error, and ErrNotMatched
Errors == {"temp", "perm", "plain", "notmatched"}

IsNetError(e) == e \in {"temp", "perm", "notmatched"}

\* an ErrNotMatched that is no temporary error
TemporaryRootOnly(e) == e = "temp"

\* Temporary() of a net.Error; ErrNotMatched answers true
Temporary(e) == e \in {"temp", "notmatched"}

\* a policy that asks the handler only
handleErrHandlerOnly(h, e) == h

\* cMux.handleErr
handleErr(h, e) ==
    IF ~h THEN FALSE
    ELSE IF IsNetError(e) THEN Temporary(e)
    ELSE FALSE

(***************************************************************************)
(* Serve: the accept loop and its deferred shutdown.                       *)
(***************************************************************************)
\* the caller starts Serve
ServeStart ==
    /\ servePc = "setup"
    /\ servePc' = "accept"
    /\ UNCHANGED <<muxVars, chanVars, rootOpen, serveErr, wg, offered,
                   connVars, connClosed, wk, histVars, accVars,
                   testVars>>

\* the worker's first position: the first matcher of the first route that
\* has one, or the not-matched path
FirstPos(ri) ==
    LET rs == {r \in ri..Len(sls) : Len(sls[r]) > 0}
    IN IF rs = {} THEN [pc |-> "nomatch", ri |-> 1, mi |-> 1]
       ELSE [pc |-> "match",
             ri |-> CHOOSE r \in rs : \A q \in rs : r <= q, mi |-> 1]

\* a loop that starts the worker without counting it
wgAddNone(n) == n

\* wg.Add(1)
wgAdd(n) == n + 1

\* m.serve(c) called without go: the loop goes on when the worker returned
loopFreeSync(n) == n = 0

\* go m.serve(c): the loop is back at root.Accept whatever the n workers do
loopFree(n) == TRUE

\* root.Accept returns connection c producing the bytes s: wg.Add(1), go serve
ServeAccept(c, s) ==
    /\ servePc = "accept"
    /\ loopFree(wg)
    /\ rootOpen
    /\ c = offered + 1
    /\ c \in Conns
    /\ offered' = c
    /\ wg' = wgAdd(wg)
    /\ raw' = [raw EXCEPT ![c] = s]
    /\ wk' = [wk EXCEPT ![c] =
                [NoWorker EXCEPT !.pc = FirstPos(1).pc, !.ri = FirstPos(1).ri]]
    /\ UNCHANGED <<muxVars, chanVars, rootOpen, servePc, serveErr, pos, buf,
                   down, connClosed, histVars, accVars,
                   testVars>>

\* root.Accept returns the error e: the loop goes on or Serve returns e,
\* which runs the deferred function
ServeAcceptErr(e) ==
    /\ servePc = "accept"
    /\ e \in (IF rootOpen THEN {"temp", "perm", "plain"} ELSE {"perm"})
    /\ IF handleErr(errh, e)
       THEN UNCHANGED <<servePc, serveErr>>
       ELSE /\ servePc' = "wait"
            /\ serveErr' = e
    /\ UNCHANGED <<muxVars, chanVars, rootOpen, wg, offered, connVars,
                   connClosed, wk, histVars, accVars,
                   testVars>>

\* a deferred function that does not wait for the workers
wgNoWait == TRUE

\* wg.Wait returns
wgWait == wg = 0

\* a loop that stops after the first route
closeFirst == [r \in Routes |-> r = 1]

\* the loop over sls that closes every connc
closeAll == [r \in Routes |-> TRUE]

\* the deferred function: wg.Wait has returned, every connc is closed
ServeReturn ==
    /\ servePc = "wait"
    /\ wgWait
    /\ chClosed' = closeAll
    /\ servePc' = "returned"
    /\ UNCHANGED <<muxVars, connc, rootOpen, serveErr, wg, offered, connVars,
                   connClosed, wk, histVars, accVars,
                   testVars>>

\* the owner of the root listener closes it, under a running Serve
RootClose ==
    /\ servePc # "setup"
    /\ rootOpen
    /\ rootOpen' = FALSE
    /\ UNCHANGED <<muxVars, chanVars, serveVars, connVars, connClosed, wk,
                   histVars, accVars,
                   testVars>>

(***************************************************************************)
(* The replay buffer of a MuxConn: the bytes written so far and a read     *)
(* cursor.                                                                 *)
(***************************************************************************)
\* buffer.Read into a slice of length n: the bytes copied, the buffer after
\* the call, and eof when the call leaves nothing unread
bufRead(b, n) ==
    LET k == Min(n, Len(b.data) - b.read)
    IN [bytes |-> SubSeq(b.data, b.read + 1, b.read + k),
        buf |-> [b EXCEPT !.read = b.read + k],
        eof |-> (b.read + k = Len(b.data))]

\* a buffer that reports io.EOF only in a call that copies nothing
bufErrLate(br) == IF br.eof /\ br.bytes = <<>> THEN "EOF" ELSE "nil"

\* the error of a buffer.Read call with the result br: io.EOF when the call
\* leaves nothing unread
bufErr(br) == IF br.eof THEN "EOF" ELSE "nil"

\* buffer.Write: appends a copy of p
bufWrite(b, p) == [b EXCEPT !.data = b.data \o p]

\* a resetRead that leaves the read cursor where it is
resetReadStay(b) == b

\* buffer.resetRead: the read cursor goes back to byte 0
resetRead(b) == [b EXCEPT !.read = 0]

\* a reset that leaves the read cursor where the matcher left it
resetKeep(b) == b

\* MuxConn.reset
reset(b) == resetRead(b)

\* a Read of the raw connection into b instead of b[n1:]: the bytes taken
\* from the buffer are overwritten
readJoinOver(fromBuf, fromConn) == fromConn

\* MuxConn.Read past the buffer: the raw connection reads into b[n1:] and
\* the call returns the n1 + n2 bytes
readJoin(fromBuf, fromConn) == fromBuf \o fromConn

(***************************************************************************)
(* The worker serve(c): the matching loop over sls.                        *)
(***************************************************************************)
\* the matcher the worker of c is running
CurMatcher(c) == sls[wk[c].ri][wk[c].mi]

\* the matcher's ReadFull has what it asked for, or its view reported an error
ReadDone(c) == Len(wk[c].got) = CurMatcher(c).n \/ wk[c].rerr

\* one Read of the matcher on its sniffing view, the MultiReader of the
\* buffer and a TeeReader of the raw connection into the buffer; k is the
\* number of bytes the raw connection returns if the call reaches it
MatcherRead(c, k) ==
    /\ wk[c].pc = "match"
    /\ ~ReadDone(c)
    /\ LET need == CurMatcher(c).n - Len(wk[c].got)
           br == bufRead(buf[c], need)
           fromBuf == wk[c].mr = 1 /\ br.bytes # <<>>
           left == Len(raw[c]) - pos[c]
       IN IF fromBuf
          THEN \* the buffer has unread bytes: they are the result
               /\ k = 0
               /\ buf' = [buf EXCEPT ![c] = br.buf]
               /\ wk' = [wk EXCEPT ![c].got = @ \o br.bytes,
                                   ![c].mr = IF br.eof THEN 2 ELSE 1]
               /\ UNCHANGED pos
          ELSE IF left = 0
          THEN \* the raw connection is at its end: the view reports EOF
               /\ k = 0
               /\ wk' = [wk EXCEPT ![c].mr = 3, ![c].rerr = TRUE]
               /\ UNCHANGED <<buf, pos>>
          ELSE \* the TeeReader reads k bytes and writes them to the buffer
               /\ k \in 1..Min(need, left)
               /\ LET p == SubSeq(raw[c], pos[c] + 1, pos[c] + k)
                  IN /\ buf' = [buf EXCEPT ![c] = bufWrite(@, p)]
                     /\ wk' = [wk EXCEPT ![c].got = @ \o p, ![c].mr = 2]
               /\ pos' = [pos EXCEPT ![c] = @ + k]
    /\ UNCHANGED <<muxVars, chanVars, rootOpen, serveVars, raw, down,
                   connClosed, histVars, accVars,
                   testVars>>

\* a loop that leaves the route at its first matcher that says no
NextPosSkip(ri, mi) == FirstPos(ri + 1)

\* the position after matcher (ri, mi) said no
NextPos(ri, mi) ==
    IF mi < Len(sls[ri]) THEN [pc |-> "match", ri |-> ri, mi |-> mi + 1]
    ELSE FirstPos(ri + 1)

\* the matcher returns; the worker resets the read cursor, then hands the
\* connection to the route or goes on with the next matcher
MatcherReturn(c) ==
    /\ wk[c].pc = "match"
    /\ ReadDone(c)
    /\ LET matched == wk[c].got \in CurMatcher(c).acc
           np == NextPos(wk[c].ri, wk[c].mi)
       IN /\ tried' = [tried EXCEPT ![c] =
                          Append(@, <<wk[c].ri, wk[c].mi, matched>>)]
          /\ buf' = [buf EXCEPT ![c] = reset(@)]
          /\ wk' = [wk EXCEPT ![c] =
                      IF matched
                      THEN [NoWorker EXCEPT !.pc = "send", !.ri = wk[c].ri,
                                            !.mi = wk[c].mi]
                      ELSE [NoWorker EXCEPT !.pc = np.pc, !.ri = np.ri,
                                            !.mi = np.mi]]
    /\ UNCHANGED <<muxVars, chanVars, rootOpen, serveVars, raw, pos, down,
                   connClosed, enq, reports, accVars,
                   testVars>>

\* the worker returns: wg.Done
Finished(c) == [wk[c] EXCEPT !.pc = "done"]

\* a hand-off without the return: the loop goes on with the next matcher
AfterSendFall(c) ==
    LET np == NextPos(wk[c].ri, wk[c].mi)
    IN [NoWorker EXCEPT !.pc = np.pc, !.ri = np.ri, !.mi = np.mi]

\* the return that follows the hand-off
AfterSend(c) == Finished(c)

\* a queue that takes one connection more than its capacity
HasRoomOneMore(q) == Len(q) <= bufLen

\* a send on connc does not block: the queue holds fewer than bufLen
HasRoom(q) == Len(q) < bufLen

\* connc <- muc with room in the queue; a send on a closed channel panics
Send(c) ==
    /\ wk[c].pc = "send"
    /\ LET r == wk[c].ri
       IN IF chClosed[r]
          THEN /\ wk' = [wk EXCEPT ![c].pc = "panic"]
               /\ UNCHANGED <<connc, enq, wg>>
          ELSE /\ HasRoom(connc[r])
               /\ connc' = [connc EXCEPT ![r] = Append(@, c)]
               /\ enq' = [enq EXCEPT ![c] = Append(@, r)]
               /\ wk' = [wk EXCEPT ![c] = AfterSend(c)]
               /\ wg' = wg - 1
    /\ UNCHANGED <<muxVars, chClosed, rootOpen, servePc, serveErr, offered,
                   connVars, connClosed, tried, reports, accVars,
                   testVars>>

\* connc <- muc received at once by the Accept call pending on the route
Handoff(c) ==
    /\ wk[c].pc = "send"
    /\ LET r == wk[c].ri
       IN /\ ~chClosed[r]
          /\ acc[r]
          /\ connc[r] = <<>>
          /\ enq' = [enq EXCEPT ![c] = Append(@, r)]
          /\ accepted' = [accepted EXCEPT ![r] = Append(@, c)]
          /\ acc' = [acc EXCEPT ![r] = FALSE]
    /\ wk' = [wk EXCEPT ![c] = AfterSend(c)]
    /\ wg' = wg - 1
    /\ UNCHANGED <<muxVars, chanVars, rootOpen, servePc, serveErr, offered,
                   connVars, connClosed, tried, reports, accErr, lclosed,
                   testVars>>

\* a not-matched path that never calls handleErr
reportNone(n) == n

\* m.handleErr(ErrNotMatched{c: c}): the handler sees one more report of c
reportNotMatched(n) == n + 1

\* no matcher said yes: c.Close, the ErrNotMatched report, and root.Close
\* when handleErr says stop
NoMatch(c) ==
    /\ wk[c].pc = "nomatch"
    /\ connClosed' = [connClosed EXCEPT ![c] = TRUE]
    /\ reports' = [reports EXCEPT ![c] = reportNotMatched(@)]
    /\ rootOpen' = (rootOpen /\ handleErr(errh, "notmatched"))
    /\ wk' = [wk EXCEPT ![c] = Finished(c)]
    /\ wg' = wg - 1
    /\ UNCHANGED <<muxVars, chanVars, servePc, serveErr, offered, connVars,
                   tried, enq, accVars,
                   testVars>>

(***************************************************************************)
(* The child listeners and the owners of the delivered connections.        *)
(***************************************************************************)
\* a downstream server calls Accept on the listener of route r
AcceptCall(r) ==
    /\ r \in Routes
    /\ ~acc[r]
    /\ acc' = [acc EXCEPT ![r] = TRUE]
    /\ UNCHANGED <<muxVars, chanVars, rootOpen, serveVars, connVars,
                   connClosed, wk, histVars, accepted, accErr, lclosed,
                   testVars>>

\* c, ok := <-connc with a queued connection
AcceptRecv(r) ==
    /\ r \in Routes
    /\ acc[r]
    /\ connc[r] # <<>>
    /\ accepted' = [accepted EXCEPT ![r] = Append(@, Head(connc[r]))]
    /\ connc' = [connc EXCEPT ![r] = Tail(@)]
    /\ acc' = [acc EXCEPT ![r] = FALSE]
    /\ UNCHANGED <<muxVars, chClosed, rootOpen, serveVars, connVars,
                   connClosed, wk, histVars, accErr, lclosed,
                   testVars>>

\* c, ok := <-connc on a closed, drained channel: ErrListenerClosed
\* a receive from a closed channel reports !ok once the channel is empty
drainedAny(q) == TRUE

drained(q) == q = <<>>

AcceptClosed(r) ==
    /\ r \in Routes
    /\ acc[r]
    /\ drained(connc[r])
    /\ chClosed[r]
    /\ accErr' = [accErr EXCEPT ![r] = TRUE]
    /\ acc' = [acc EXCEPT ![r] = FALSE]
    /\ UNCHANGED <<muxVars, chanVars, rootOpen, serveVars, connVars,
                   connClosed, wk, histVars, accepted, lclosed,
                   testVars>>

\* the connections some Accept call has returned
Owned == {c \in Conns : \E r \in Routes : \E i \in 1..Len(accepted[r]) :
                            accepted[r][i] = c}

\* MuxConn.Read into a slice of length n by the owner of c; k is the number
\* of bytes the raw connection returns if the call reaches it
MuxConnRead(c, n, k) ==
    /\ c \in Owned
    /\ ~down[c].eof
    /\ LET br == bufRead(buf[c], n)
           n1 == Len(br.bytes)
           left == Len(raw[c]) - pos[c]
       IN /\ buf' = [buf EXCEPT ![c] = br.buf]
          /\ IF n1 = n \/ ~br.eof
             THEN \* return n1, err with the error of buf.Read
                  /\ k = 0
                  /\ down' = [down EXCEPT ![c].bytes = @ \o br.bytes,
                                          ![c].err = bufErr(br)]
                  /\ UNCHANGED pos
             ELSE IF left = 0
             THEN \* Conn.Read returns 0, io.EOF
                  /\ k = 0
                  /\ down' = [down EXCEPT ![c].bytes =
                                              @ \o readJoin(br.bytes, <<>>),
                                          ![c].eof = TRUE,
                                          ![c].err = "EOF"]
                  /\ UNCHANGED pos
             ELSE \* Conn.Read returns k bytes and no error
                  /\ k \in 1..Min(n - n1, left)
                  /\ down' = [down EXCEPT ![c].bytes = @ \o
                        readJoin(br.bytes,
                                 SubSeq(raw[c], pos[c] + 1, pos[c] + k)),
                                          ![c].err = "nil"]
                  /\ pos' = [pos EXCEPT ![c] = @ + k]
    /\ UNCHANGED <<muxVars, chanVars, rootOpen, serveVars, raw, connClosed,
                   wk, histVars, accVars,
                   testVars>>

Next ==
    \/ \E ms \in MatcherLists : Match(ms)
    \/ \E h \in BOOLEAN : HandleError(h)
    \/ ServeStart
    \/ \E c \in Conns, s \in Streams : ServeAccept(c, s)
    \/ \E e \in Errors : ServeAcceptErr(e)
    \/ ServeReturn
    \/ RootClose
    \/ \E c \in Conns, k \in 0..MaxRead : MatcherRead(c, k)
    \/ \E c \in Conns : MatcherReturn(c)
    \/ \E c \in Conns : Send(c)
    \/ \E c \in Conns : Handoff(c)
    \/ \E c \in Conns : NoMatch(c)
    \/ \E r \in 1..MaxRoutes : AcceptCall(r)
    \/ \E r \in 1..MaxRoutes : AcceptRecv(r)
    \/ \E r \in 1..MaxRoutes : AcceptClosed(r)
    \/ \E c \in Conns, n \in 1..MaxRead, k \in 0..MaxRead : MuxConnRead(c, n, k)

Spec == Init /\ [][Next]_vars

(***************************************************************************)
(* Properties of the dispatch.                                             *)
(***************************************************************************)
\* the matcher positions of the route table
Positions == UNION {{<<r, m>> : m \in 1..Len(sls[r])} : r \in Routes}

\* p is registered before q
Before(p, q) == p[1] < q[1] \/ (p[1] = q[1] /\ p[2] < q[2])

\* the place of position p in registration order
Rank(p) == Cardinality({q \in Positions : Before(q, p)}) + 1

\* the routes with a matcher that accepts the stream s
Accepting(s) == {r \in Routes : \E m \in 1..Len(sls[r]) : Accepts(sls[r][m], s)}

\* how often connection c sits in a route queue or was returned by Accept
Held(c) ==
    Cardinality(UNION {{<<r, i>> : i \in {j \in 1..Len(connc[r]) :
                                              connc[r][j] = c}} : r \in Routes})
    + Cardinality(UNION {{<<r, i>> : i \in {j \in 1..Len(accepted[r]) :
                                              accepted[r][j] = c}} : r \in Routes})

\* C1: the matchers are called in registration order, none is called after
\* one that said yes, each answers what it answers on the connection's
\* prefix, and a delivered connection is on the earliest route with an
\* accepting matcher
PriorityDeterminism ==
    \A c \in Conns :
        /\ \A i \in 1..Len(tried[c]) :
              /\ Rank(<<tried[c][i][1], tried[c][i][2]>>) = i
              /\ tried[c][i][3] =
                    Accepts(sls[tried[c][i][1]][tried[c][i][2]], raw[c])
              /\ i < Len(tried[c]) => ~tried[c][i][3]
        /\ \A i \in 1..Len(enq[c]) :
              /\ enq[c][i] \in Accepting(raw[c])
              /\ \A r \in Accepting(raw[c]) : enq[c][i] <= r

\* a connection delivered to the first route although the second route has
\* an accepting matcher too
PriorityWitness ==
    \E c \in Conns :
        /\ enq[c] = <<1>>
        /\ Accepting(raw[c]) = {1, 2}

\* C2: the bytes the owner has got from MuxConn.Read are the first bytes of
\* the raw connection's stream, and all of it once the raw connection has
\* reported its end
ExactlyOnceDelivery ==
    \A c \in Conns :
        /\ IsPrefix(down[c].bytes, raw[c])
        /\ down[c].eof => down[c].bytes = raw[c]

\* the owner has read the whole stream of a connection that three matchers
\* inspected
ExactlyOnceWitness ==
    \E c \in Conns :
        /\ down[c].eof
        /\ down[c].bytes = raw[c]
        /\ raw[c] # <<>>
        /\ Len(tried[c]) >= 3

\* C3: every matcher call starts with the read cursor at byte 0, and what
\* the matcher has read is a prefix of the raw connection's stream
MatchersReadFromStart ==
    \A c \in Conns :
        /\ wk[c].pc = "match" => IsPrefix(wk[c].got, raw[c])
        /\ (wk[c].pc \in {"match", "send", "nomatch"}
              /\ wk[c].got = <<>> /\ wk[c].mr = 1) => buf[c].read = 0

\* a matcher reads on after an earlier matcher that consumed more than it
\* has read so far
MatchersReadWitness ==
    \E c \in Conns :
        /\ wk[c].pc = "match"
        /\ Len(tried[c]) >= 2
        /\ wk[c].got # <<>>
        /\ Len(wk[c].got) < Len(buf[c].data)

\* C4: a connection is never enqueued twice nor both enqueued and closed,
\* and a finished worker leaves it either on exactly one route (in the
\* queue or returned by Accept, not closed, not reported) or closed,
\* reported once and on no route
OneTerminalOutcome ==
    \A c \in Conns :
        /\ Len(enq[c]) <= 1
        /\ Held(c) = Len(enq[c])
        /\ ~(enq[c] # <<>> /\ connClosed[c])
        /\ wk[c].pc = "done" =>
              \/ Len(enq[c]) = 1 /\ ~connClosed[c] /\ reports[c] = 0
              \/ enq[c] = <<>> /\ connClosed[c] /\ reports[c] = 1

\* both outcomes: one connection delivered, one closed as not matched
OneTerminalWitness ==
    \E c, d \in Conns :
        /\ wk[c].pc = "done" /\ Len(enq[c]) = 1
        /\ wk[d].pc = "done" /\ connClosed[d]

(***************************************************************************)
(* Shutdown.                                                               *)
(***************************************************************************)
\* C5: when Serve has returned every route's queue is closed, so an Accept
\* call pending on an empty queue can return, and every Accept call that
\* returns on an empty queue returns ErrListenerClosed and no connection
AcceptAfterServe ==
    /\ [](servePc = "returned" =>
            \A r \in Routes :
                /\ chClosed[r]
                /\ (acc[r] /\ connc[r] = <<>>) => ENABLED AcceptClosed(r))
    /\ [][\A r \in Routes :
            (servePc = "returned" /\ connc[r] = <<>> /\ acc[r] /\ ~acc'[r])
                => (accErr'[r] /\ accepted'[r] = accepted[r])]_vars

\* Serve has returned, an Accept call on the second route has returned
\* ErrListenerClosed and the next one is pending, as is one on the first
AcceptAfterServeWitness ==
    /\ servePc = "returned"
    /\ Len(sls) = 2
    /\ accErr[2] /\ acc[2] /\ acc[1]

\* The scheduler runs every goroutine that can take a step: the accept loop
\* gets the error of a closed root listener and runs its deferred function,
\* a worker goes on matching and completes a send that can complete, and an
\* Accept call that can return does.  Nothing makes the root listener offer
\* or fail, makes a downstream server call Accept, or makes an owner read.
Fairness ==
    /\ WF_vars(~rootOpen /\ ServeAcceptErr("perm"))
    /\ WF_vars(ServeReturn)
    /\ \A c \in Conns :
          /\ WF_vars(\E k \in 0..MaxRead : MatcherRead(c, k))
          /\ WF_vars(MatcherReturn(c))
          /\ WF_vars(Send(c))
          /\ WF_vars(Handoff(c))
          /\ WF_vars(NoMatch(c))
    /\ \A r \in 1..MaxRoutes :
          /\ WF_vars(AcceptRecv(r))
          /\ WF_vars(AcceptClosed(r))

FairSpec == Spec /\ Fairness

\* C6: once the root listener is closed under a running Serve, Serve
\* returns, and every Accept call then pending returns
ShutdownLiveness ==
    /\ (~rootOpen /\ servePc \in {"accept", "wait"}) ~> (servePc = "returned")
    /\ \A r \in 1..MaxRoutes :
          (~rootOpen /\ servePc \in {"accept", "wait"} /\ r \in Routes /\ acc[r])
              ~> (r \in Routes /\ ~acc[r])

\* C7: a worker waiting to hand over its connection when the accept loop
\* has stopped finishes
BlockedWorkerInterruptible ==
    \A c \in Conns :
        (servePc = "wait" /\ wk[c].pc = "send") ~> (wk[c].pc = "done")

\* C8: no worker sends on a closed queue, and no queue is closed while a
\* worker has yet to send
NoSendOnClosed ==
    \A c \in Conns :
        /\ wk[c].pc # "panic"
        /\ wk[c].pc \in {"match", "send"} => \A r \in Routes : ~chClosed[r]

\* the accept loop has stopped and waits in its deferred function while a
\* worker is about to send
NoSendOnClosedWitness ==
    /\ servePc = "wait"
    /\ \E c \in Conns : wk[c].pc = "send"

\* C9: when Serve has returned every worker it started has finished, its
\* connection handed to a route or closed and reported
NoWorkerAfterServe ==
    servePc = "returned" =>
        \A c \in Conns :
            /\ c <= offered => wk[c].pc = "done"
            /\ c > offered => wk[c].pc = "none"
            /\ wk[c].pc = "done" =>
                  \/ Len(enq[c]) = 1
                  \/ connClosed[c] /\ reports[c] = 1

\* Serve has returned after two workers, one delivered and one not matched
NoWorkerAfterServeWitness ==
    /\ servePc = "returned"
    /\ \E c, d \in Conns : Len(enq[c]) = 1 /\ connClosed[d]

(***************************************************************************)
(* Backpressure.                                                           *)
(***************************************************************************)
\* the workers waiting to hand a connection to route r
Senders(r) == {c \in Conns : wk[c].pc = "send" /\ wk[c].ri = r}

\* C10: with a queue of capacity 0 nothing is ever buffered and a worker
\* gets past its send only by an Accept call taking the connection; the
\* connections Accept has returned on a route are distinct, and every
\* waiting worker can hand over as soon as an Accept call is pending
BackpressureNoLoss ==
    bufLen = 0 =>
        /\ \A r \in Routes :
              /\ connc[r] = <<>>
              /\ \A i, j \in 1..Len(accepted[r]) :
                    accepted[r][i] = accepted[r][j] => i = j
              /\ \A c \in Senders(r) :
                    (acc[r] /\ ~chClosed[r]) => ENABLED Handoff(c)
        /\ \A c \in Conns :
              (wk[c].pc = "done" /\ enq[c] # <<>>) =>
                  \E i \in 1..Len(accepted[enq[c][1]]) :
                      accepted[enq[c][1]][i] = c

\* two connections matched the same route of capacity 0 and two Accept
\* calls returned both
BackpressureWitness ==
    /\ bufLen = 0
    /\ \E r \in Routes : Len(accepted[r]) = 2

(***************************************************************************)
(* The error policy.                                                       *)
(***************************************************************************)
\* C11: a connection no matcher accepts is closed by its worker, is put on
\* no route, and is reported to the handler exactly once as ErrNotMatched;
\* no other connection is closed or reported
NotMatchedReported ==
    \A c \in Conns :
        /\ reports[c] <= 1
        /\ connClosed[c] <=> reports[c] = 1
        /\ reports[c] = 1 =>
              /\ Accepting(raw[c]) = {}
              /\ wk[c].pc = "done"
              /\ enq[c] = <<>>
              /\ Held(c) = 0
              /\ \A p \in Positions :
                    \E i \in 1..Len(tried[c]) :
                        tried[c][i] = <<p[1], p[2], FALSE>>
        /\ (wk[c].pc = "done" /\ Accepting(raw[c]) = {}) =>
              /\ connClosed[c]
              /\ reports[c] = 1

\* a connection closed and reported after the three matchers of two routes
\* said no, the handler being the default one
NotMatchedWitness ==
    \E c \in Conns :
        /\ reports[c] = 1
        /\ connClosed[c]
        /\ Len(tried[c]) = 3
        /\ errh

\* C12: under a handler that answers true, the report of an unmatched
\* connection leaves the root listener open, Serve where it is and every
\* queue open, and the accept loop can take the next connection the root
\* listener offers
UnmatchedKeepsService ==
    /\ [][\A c \in Conns :
            (errh /\ reports'[c] > reports[c]) =>
                /\ rootOpen' = rootOpen
                /\ servePc' = servePc
                /\ serveErr' = serveErr
                /\ chClosed' = chClosed]_vars
    /\ []((/\ errh
           /\ \E c \in Conns : reports[c] > 0
           /\ servePc = "accept" /\ rootOpen /\ offered < NumConns)
            => ENABLED (\E s \in Streams : ServeAccept(offered + 1, s)))

\* the first connection was not matched and reported to the default
\* handler; Serve is in its loop on an open root listener and the second
\* connection has been handed to a route and returned by Accept
UnmatchedKeepsWitness ==
    /\ errh
    /\ reports[1] = 1
    /\ servePc = "accept"
    /\ rootOpen
    /\ \E r \in Routes : accepted[r] = <<2>>

\* C13: once an unmatched connection has been reported to a handler that
\* answers false, the root listener is closed, and Serve returns with every
\* route's queue closed
StopOnNotMatched ==
    /\ [](\A c \in Conns : (~errh /\ reports[c] = 1) => ~rootOpen)
    /\ \A c \in Conns :
          (~errh /\ reports[c] = 1)
              ~> (servePc = "returned" /\ \A r \in Routes : chClosed[r])

\* the errors the root listener's Accept returns
RootErrors == {"temp", "perm", "plain"}

\* C14: when the root listener's Accept returns e, the loop goes on exactly
\* when the handler answers true and e is a temporary net error, and
\* otherwise Serve leaves the loop with e, which is what it returns
RootErrorPolicy ==
    /\ [](servePc = "accept" =>
            \A e \in RootErrors :
                (rootOpen \/ e = "perm") =>
                    /\ (errh /\ e = "temp")
                          <=> ENABLED (ServeAcceptErr(e) /\ servePc' = "accept")
                    /\ ~(errh /\ e = "temp")
                          <=> ENABLED (/\ ServeAcceptErr(e)
                                       /\ servePc' = "wait"
                                       /\ serveErr' = e))
    /\ [](servePc \in {"setup", "accept"} <=> serveErr = "none")
    /\ [][(servePc = "accept" /\ servePc' # "accept") =>
              /\ servePc' = "wait"
              /\ serveErr' \in RootErrors
              /\ ~(errh /\ serveErr' = "temp")]_vars
    /\ [][(servePc \in {"wait", "returned"}) => serveErr' = serveErr]_vars

\* Serve has returned a permanent net error of an open root listener
\* although the handler answers true
RootErrorWitness ==
    /\ servePc = "returned"
    /\ serveErr = "perm"
    /\ errh
    /\ rootOpen

(***************************************************************************)
(* The accept loop and the workers.                                        *)
(***************************************************************************)
\* C15: whatever the workers of the earlier connections are doing, the
\* accept loop takes the next connection the open root listener offers,
\* and taking it starts that connection's worker and touches no other
AcceptNeverWaits ==
    /\ []((servePc = "accept" /\ rootOpen /\ offered < NumConns)
            => ENABLED (\E s \in Streams : ServeAccept(offered + 1, s)))
    /\ [][offered' # offered =>
              /\ offered' = offered + 1
              /\ wk[offered'].pc = "none"
              /\ wk'[offered'].pc # "none"
              /\ \A d \in Conns \ {offered'} : wk'[d] = wk[d]]_vars

\* the worker of the first connection waits to hand it to a route of
\* capacity 0 on which nobody calls Accept, and the second connection has
\* been accepted and its worker is inside its first matcher
AcceptNeverWaitsWitness ==
    /\ bufLen = 0
    /\ wk[1].pc = "send"
    /\ \A r \in Routes : ~acc[r] /\ accepted[r] = <<>>
    /\ wk[2].pc = "match"
    /\ tried[2] = <<>>

(***************************************************************************)
(* Close on a child listener.  muxListener embeds the root net.Listener    *)
(* and declares no Close of its own, so the Close of a child listener is   *)
(* the promoted Close of the root listener.                                *)
(***************************************************************************)
\* a downstream server calls Close on the listener of route r while Serve
\* is in its loop
ChildClose(r) ==
    /\ r \in Routes
    /\ servePc = "accept"
    /\ rootOpen
    /\ lclosed' = [lclosed EXCEPT ![r] = TRUE]
    /\ rootOpen' = FALSE
    /\ UNCHANGED <<muxVars, chanVars, serveVars, connVars, connClosed, wk,
                   histVars, acc, accepted, accErr, testVars>>

\* the steps of the Mux, its workers and the downstream servers' Accept
\* calls, and the Close calls on the child listeners; nobody else closes the
\* root listener, and what the owners read plays no part
CloseNext ==
    \/ \E ms \in MatcherLists : Match(ms)
    \/ ServeStart
    \/ \E c \in Conns, s \in Streams : ServeAccept(c, s)
    \/ \E e \in Errors : ServeAcceptErr(e)
    \/ ServeReturn
    \/ \E c \in Conns, k \in 0..MaxRead : MatcherRead(c, k)
    \/ \E c \in Conns : MatcherReturn(c)
    \/ \E c \in Conns : Send(c)
    \/ \E c \in Conns : Handoff(c)
    \/ \E c \in Conns : NoMatch(c)
    \/ \E r \in 1..MaxRoutes : AcceptCall(r)
    \/ \E r \in 1..MaxRoutes : AcceptRecv(r)
    \/ \E r \in 1..MaxRoutes : AcceptClosed(r)
    \/ \E r \in 1..MaxRoutes : ChildClose(r)

\* the Mux with downstream servers that close their listeners
CloseSpec == Init /\ [][CloseNext]_vars

\* C16: a Close call on a child listener leaves the root listener as it was
ChildCloseKeepsRoot ==
    [][\A r \in Routes :
          (~lclosed[r] /\ lclosed'[r]) => rootOpen' = rootOpen]_vars

(***************************************************************************)
(* A matcher that panics.  serve calls the matcher on its own goroutine    *)
(* and has no recover: the deferred wg.Done runs, the panic leaves the     *)
(* goroutine and the Go runtime ends the program, the accept loop, every   *)
(* worker and every downstream server with it.                             *)
(***************************************************************************)
\* no goroutine has panicked: the program runs
Alive == \A c \in Conns : wk[c].pc # "panic"

\* the matcher the worker of c is running panics
MatcherPanic(c) ==
    /\ wk[c].pc = "match"
    /\ wk' = [wk EXCEPT ![c].pc = "panic"]
    /\ wg' = wg - 1
    /\ UNCHANGED <<muxVars, chanVars, rootOpen, servePc, serveErr, offered,
                   connVars, connClosed, histVars, accVars, testVars>>

\* the steps of the Mux, its workers and the downstream servers' Accept
\* calls, each taken only while the program runs, and the panics of the
\* matchers
PanicNext ==
    \/ Alive /\ \E ms \in MatcherLists : Match(ms)
    \/ Alive /\ ServeStart
    \/ Alive /\ \E c \in Conns, s \in Streams : ServeAccept(c, s)
    \/ Alive /\ \E e \in Errors : ServeAcceptErr(e)
    \/ Alive /\ ServeReturn
    \/ Alive /\ \E c \in Conns, k \in 0..MaxRead : MatcherRead(c, k)
    \/ Alive /\ \E c \in Conns : MatcherReturn(c)
    \/ Alive /\ \E c \in Conns : Send(c)
    \/ Alive /\ \E c \in Conns : Handoff(c)
    \/ Alive /\ \E c \in Conns : NoMatch(c)
    \/ Alive /\ \E r \in 1..MaxRoutes : AcceptCall(r)
    \/ Alive /\ \E r \in 1..MaxRoutes : AcceptRecv(r)
    \/ Alive /\ \E r \in 1..MaxRoutes : AcceptClosed(r)
    \/ Alive /\ \E c \in Conns : MatcherPanic(c)

\* the Mux with matchers that can panic
PanicSpec == Init /\ [][PanicNext]_vars

\* C17: after the matcher of one connection has panicked, the accept loop
\* can still take the next connection of the open root listener, and the
\* worker of every other connection can still take its next matching step
\* or hand its connection to a pending Accept call
PanicConfined ==
    \A c \in Conns :
        wk[c].pc = "panic" =>
            /\ (servePc = "accept" /\ rootOpen /\ offered < NumConns)
                  => ENABLED (PanicNext /\ offered' = offered + 1)
            /\ \A d \in Conns \ {c} :
                  (\/ wk[d].pc = "match"
                   \/ wk[d].pc = "send" /\ acc[wk[d].ri]
                                        /\ ~chClosed[wk[d].ri])
                      => ENABLED (PanicNext /\ wk'[d] # wk[d])

(***************************************************************************)
(* Reads of the owner of a delivered connection.                           *)
(***************************************************************************)
\* C18: the last MuxConn.Read of the owner returned io.EOF only if the raw
\* connection's Read has reported io.EOF to it
EofOnlyFromConn ==
    \A c \in Conns : down[c].err = "EOF" => down[c].eof

\* C19: a MuxConn.Read of the owner that finds unread bytes in the replay
\* buffer does not call Read on the raw connection: it takes no byte from
\* it and gets no end of stream from it
BufferedBytesFirst ==
    [][\A c \in Owned :
          (buf[c].read < Len(buf[c].data) /\ down'[c] # down[c]) =>
              /\ pos'[c] = pos[c]
              /\ down'[c].eof = down[c].eof]_vars

(***************************************************************************)
(* The replay buffer on its own, driven as the buffer tests drive it: some *)
(* Write calls, then Read calls of any sizes and resetRead calls.          *)
(***************************************************************************)
Bytes == {1, 2}

\* the slices handed to Write
Chunks == UNION {[1..k -> Bytes] : k \in 1..2}

\* var b buffer
BufInit == Init /\ bufLen = 0

\* b.Write(p)
BufWrite(p) ==
    /\ testPc = "write"
    /\ Len(written) + Len(p) <= MaxData
    /\ testBuf' = bufWrite(testBuf, p)
    /\ written' = written \o p
    /\ UNCHANGED <<muxVars, chanVars, rootOpen, serveVars, connVars,
                   connClosed, wk, histVars, accVars, readBytes, sawEOF,
                   testPc, round, cut, lastRead, ptVars,
                   pxVars, dVars, xVars>>

\* the loop of Write calls ends
BufWritesDone ==
    /\ testPc = "write"
    /\ testPc' = "read"
    /\ UNCHANGED <<muxVars, chanVars, rootOpen, serveVars, connVars,
                   connClosed, wk, histVars, accVars, testBuf, written,
                   readBytes, sawEOF, round, cut, lastRead, ptVars,
                   pxVars, dVars, xVars>>

\* b.Read into a slice of length n
BufRead(n) ==
    /\ testPc = "read"
    /\ LET br == bufRead(testBuf, n)
       IN /\ testBuf' = br.buf
          /\ readBytes' = readBytes \o br.bytes
          /\ sawEOF' = (sawEOF \/ bufErr(br) = "EOF")
          /\ lastRead' = [asked |-> n, n |-> Len(br.bytes), err |-> bufErr(br),
                          rest |-> Len(br.buf.data) - br.buf.read]
    /\ UNCHANGED <<muxVars, chanVars, rootOpen, serveVars, connVars,
                   connClosed, wk, histVars, accVars, written, testPc,
                   round, cut, ptVars,
                   pxVars, dVars, xVars>>

\* b.resetRead(): a new round of reads starts
BufResetRead ==
    /\ testPc = "read"
    /\ round < MaxRounds
    /\ testBuf' = resetRead(testBuf)
    /\ readBytes' = <<>>
    /\ sawEOF' = FALSE
    /\ round' = round + 1
    /\ cut' = (cut \/ (readBytes # <<>> /\ ~sawEOF))
    /\ UNCHANGED <<muxVars, chanVars, rootOpen, serveVars, connVars,
                   connClosed, wk, histVars, accVars, written, testPc,
                   lastRead, ptVars,
                   pxVars, dVars, xVars>>

BufNext ==
    \/ \E p \in Chunks : BufWrite(p)
    \/ BufWritesDone
    \/ \E n \in 1..MaxRead : BufRead(n)
    \/ BufResetRead

BufSpec == BufInit /\ [][BufNext]_vars

\* C20: in every round the bytes read since the resetRead are the first
\* bytes of the concatenation of the writes, and all of it once a Read has
\* reported end-of-data; the reads and resets leave the written bytes alone
ReplaySame ==
    /\ testBuf.data = written
    /\ IsPrefix(readBytes, written)
    /\ Len(readBytes) = testBuf.read
    /\ sawEOF => readBytes = written

\* the second resetRead was followed by reads up to end-of-data of three
\* bytes written in two Write calls, and one resetRead came after a
\* partial read
ReplaySameWitness ==
    /\ round = 2
    /\ cut
    /\ sawEOF
    /\ readBytes = written
    /\ written = <<1, 2, 1>>

Range(f) == {f[i] : i \in DOMAIN f}

\* the orderings of the set S
Perms(S) ==
    {f \in [1..Cardinality(S) -> S] : \A i, j \in DOMAIN f : f[i] = f[j] => i = j}

\* splitPrefix: the longest common prefix of bss and what is left of each
splitPrefix(bss) ==
    IF Len(bss) = 0 \/ Len(bss[1]) = 0
    THEN [prefix |-> <<>>, rest |-> bss]
    ELSE IF Len(bss) = 1
    THEN [prefix |-> bss[1], rest |-> << <<>> >>]
    ELSE LET common(i) == \A j \in 1..Len(bss) :
                              Len(bss[j]) >= i /\ bss[j][i] = bss[1][i]
             ns == {n \in 0..Len(bss[1]) : \A i \in 1..n : common(i)}
             n == CHOOSE m \in ns : \A k \in ns : k <= m
         IN [prefix |-> SubSeq(bss[1], 1, n),
             rest |-> [j \in 1..Len(bss) |->
                          SubSeq(bss[j], n + 1, Len(bss[j]))]]

\* a node that is terminal only when the first rest is empty
anyEmptyFirst(rest) == rest[1] = <<>>

\* the loop over the rests sets terminal when one of them is empty
anyEmpty(rest) == \E j \in 1..Len(rest) : rest[j] = <<>>

RECURSIVE newNode(_)
\* newNode: the node for the byte strings strs
newNode(strs) ==
    IF Len(strs) = 0
    THEN [prefix |-> <<>>, terminal |-> TRUE, next |-> <<>>]
    ELSE IF Len(strs) = 1
    THEN [prefix |-> strs[1], terminal |-> TRUE, next |-> <<>>]
    ELSE LET sp == splitPrefix(strs)
             firsts == {sp.rest[j][1] :
                           j \in {k \in 1..Len(sp.rest) : Len(sp.rest[k]) > 0}}
             nexts(f) ==
                 LET ss == SelectSeq(sp.rest,
                                     LAMBDA s : Len(s) > 0 /\ s[1] = f)
                 IN [i \in 1..Len(ss) |-> Tail(ss[i])]
         IN [prefix |-> sp.prefix,
             terminal |-> anyEmpty(sp.rest),
             next |-> [f \in firsts |-> newNode(nexts(f))]]

\* newPatriciaTree: max, the length of the longest byte string
maxLen(bs) ==
    IF bs = <<>> THEN 0
    ELSE CHOOSE m \in {Len(bs[i]) : i \in 1..Len(bs)} :
             \A i \in 1..Len(bs) : Len(bs[i]) <= m

\* a scratch buffer as long as the longest byte string
ptBufLenExact(bs) == maxLen(bs)

\* newPatriciaTree: len(t.mu.buf), one more than the longest byte string
ptBufLen(bs) == maxLen(bs) + 1

\* a comparison of the clipped input with the clipped prefix
prefixEqClipped(b, l, p) == SubSeq(b, 1, l) = SubSeq(p, 1, l)

\* bytes.Equal(b[:l], n.prefix)
prefixEq(b, l, p) == SubSeq(b, 1, l) = p

RECURSIVE ptNodeMatch(_, _, _)
\* ptNode.match: "true", "false", or "panic" when b[l] is out of range
ptNodeMatch(n, b, prefix) ==
    LET l == IF Len(n.prefix) > 0 THEN Min(Len(n.prefix), Len(b)) ELSE 0
    IN IF Len(n.prefix) > 0 /\ ~prefixEq(b, l, n.prefix) THEN "false"
       ELSE IF n.terminal /\ (prefix \/ Len(n.prefix) = Len(b)) THEN "true"
       ELSE IF l >= Len(b) THEN "panic"
       ELSE IF b[l + 1] \notin DOMAIN n.next THEN "false"
       ELSE \* l < len(b) here, so the next node gets b[l+1:]
            ptNodeMatch(n.next[b[l + 1]], SubSeq(b, l + 2, Len(b)), prefix)

\* io.ReadFull(r, t.mu.buf): the first len(buf) bytes of the stream, or all
\* of it when it is shorter
ReadFull(s, n) == Take(s, n)

\* patriciaTree.matchPrefix on a reader of the stream s
matchPrefix(root, bs, s) == ptNodeMatch(root, ReadFull(s, ptBufLen(bs)), TRUE)

\* patriciaTree.match on a reader of the stream s
ptMatch(root, bs, s) == ptNodeMatch(root, ReadFull(s, ptBufLen(bs)), FALSE)

\* the bytes of the candidates and of the streams
Alphabet == {"a", "b"}

\* the byte strings of up to n bytes
Strings(n) == UNION {[1..k -> Alphabet] : k \in 0..n}

HTTPMethods == {<<"G", "E", "T", " ">>, <<"P", "O", "S", "T">>,
                <<"P", "U", "T", " ">>}

\* the argument lists of newPatriciaTree: every ordering of every set of up
\* to MaxSet candidates, and of the three HTTP methods
CandLists ==
    UNION {Perms(S) : S \in {T \in SUBSET Strings(MaxCand) :
                                 Cardinality(T) <= MaxSet}}
        \cup Perms(HTTPMethods)

\* the streams handed to the matchers
PtStreams ==
    Strings(MaxStream)
        \cup {<<"G", "E", "T", " ", "/", "x">>, <<"G", "E">>,
              <<"X", "Y", "Z">>, <<"P", "O", "S", "T">>}

\* newPatriciaTree(bs...)
PtNew(bs) ==
    /\ ptPc = "new"
    /\ ptBs' = bs
    /\ ptTree' = newNode(bs)
    /\ ptPc' = "built"
    /\ UNCHANGED <<mainVars, bufVars, pxVars, dVars, xVars,
                 ptStream, ptOut>>

\* a reader of the stream s is made for the matchers
PtReader(s) ==
    /\ ptPc = "built"
    /\ ptStream' = s
    /\ ptPc' = "stream"
    /\ UNCHANGED <<mainVars, bufVars, pxVars, dVars, xVars,
                 ptBs, ptTree, ptOut>>

\* t.matchPrefix(r)
PtMatchPrefix ==
    /\ ptPc = "stream"
    /\ ptOut.prefix = "none"
    /\ ptOut' = [ptOut EXCEPT !.prefix = matchPrefix(ptTree, ptBs, ptStream)]
    /\ UNCHANGED <<mainVars, bufVars, pxVars, dVars, xVars,
                 ptBs, ptTree, ptStream, ptPc>>

\* t.match(r)
PtMatch ==
    /\ ptPc = "stream"
    /\ ptOut.full = "none"
    /\ ptOut' = [ptOut EXCEPT !.full = ptMatch(ptTree, ptBs, ptStream)]
    /\ UNCHANGED <<mainVars, bufVars, pxVars, dVars, xVars,
                 ptBs, ptTree, ptStream, ptPc>>

PtNext ==
    \/ \E bs \in CandLists : PtNew(bs)
    \/ \E s \in PtStreams : PtReader(s)
    \/ PtMatchPrefix
    \/ PtMatch

PtSpec == BufInit /\ [][PtNext]_vars

\* the tree was built from the three HTTP methods, in some order, and the
\* matchers are handed a reader of the stream s
OnHTTPTree(s) ==
    /\ ptPc = "stream"
    /\ Range(ptBs) = HTTPMethods
    /\ ptStream = s

\* C22 as stated: on the tree of "GET ", "POST", "PUT " the stream "GET /x"
\* matches in prefix mode and in full mode
GetPathBothModes ==
    OnHTTPTree(<<"G", "E", "T", " ", "/", "x">>) =>
        /\ ptOut.prefix \in {"none", "true"}
        /\ ptOut.full \in {"none", "true"}

\* C22, amended: on the tree of "GET ", "POST", "PUT " the stream "GET /x"
\* matches in prefix mode and does not match in full mode
GetPathPrefixOnly ==
    OnHTTPTree(<<"G", "E", "T", " ", "/", "x">>) =>
        /\ ptOut.prefix \in {"none", "true"}
        /\ ptOut.full \in {"none", "false"}

\* both matchers have answered on "GET /x"
GetPathWitness ==
    /\ OnHTTPTree(<<"G", "E", "T", " ", "/", "x">>)
    /\ ptOut = [prefix |-> "true", full |-> "false"]

\* C23 as stated: on the same tree the stream "GE" matches in prefix mode
\* and does not match in full mode
ShortStreamPrefixMode ==
    OnHTTPTree(<<"G", "E">>) =>
        /\ ptOut.prefix \in {"none", "true"}
        /\ ptOut.full \in {"none", "false"}

\* C23, amended: on the same tree the stream "GE" matches in neither mode
ShortStreamNoMatch ==
    OnHTTPTree(<<"G", "E">>) =>
        /\ ptOut.prefix \in {"none", "false"}
        /\ ptOut.full \in {"none", "false"}

\* both matchers have answered on "GE"
ShortStreamWitness ==
    /\ OnHTTPTree(<<"G", "E">>)
    /\ ptOut = [prefix |-> "false", full |-> "false"]

\* C28: neither matcher faults with an index out of range
NoIndexFault ==
    /\ ptOut.prefix # "panic"
    /\ ptOut.full # "panic"

\* the bytes the matchers read from the stream
PtRead == ReadFull(ptStream, ptBufLen(ptBs))

\* the answer of the reference for the truth value v
Answer(v) == IF v THEN "true" ELSE "false"

\* C29: matchPrefix answers whether some candidate is a prefix of the bytes
\* read, and match whether the bytes read are a candidate
AgreesWithMembership ==
    /\ ptOut.prefix # "none" =>
          ptOut.prefix = Answer(\E c \in Range(ptBs) : IsPrefix(c, PtRead))
    /\ ptOut.full # "none" =>
          ptOut.full = Answer(PtRead \in Range(ptBs))

\* C30: every ordering of the candidates gives the tree the given ordering
\* gave, node by node, and so the same answers of both matchers
OrderIndependent ==
    ptPc # "new" =>
        \A q \in Perms(Range(ptBs)) :
            /\ newNode(q) = ptTree
            /\ ptOut.prefix # "none" =>
                  ptOut.prefix = matchPrefix(newNode(q), q, ptStream)
            /\ ptOut.full # "none" =>
                  ptOut.full = ptMatch(newNode(q), q, ptStream)

\* a tree of three candidates, the first given not the shortest, whose root
\* holds their common prefix, is terminal and has two edges; both matchers
\* have answered
OrderIndependentWitness ==
    /\ ptPc = "stream"
    /\ Len(ptBs) = 3
    /\ Len(ptBs[1]) = 2
    /\ ptTree.prefix # <<>>
    /\ ptTree.terminal
    /\ Cardinality(DOMAIN ptTree.next) = 2
    /\ ptOut.prefix # "none"
    /\ ptOut.full = "true"

(***************************************************************************)
(* The proxy protocol header: checkPrefix, RemoteAddr and LocalAddr.       *)
(* Bytes are one-character strings.                                        *)
(***************************************************************************)

MaxPayload == 2

defaultBufSize == 1024

prefix == <<"P", "R", "O", "X", "Y", " ">>

prefixLen == Len(prefix)

\* the loop over the bytes of the tag: "EOF" when Peek(i) finds fewer than i
\* bytes, "mismatch" at the first byte that differs, "tag" after six bytes
RECURSIVE tagLoop(_, _)
tagLoop(b, i) ==
    IF i > prefixLen THEN "tag"
    ELSE IF i > Len(b) THEN "EOF"
    ELSE IF SubSeq(b, 1, i) # SubSeq(prefix, 1, i) THEN "mismatch"
    ELSE tagLoop(b, i + 1)

\* the position of the first byte d of s, 0 when there is none
Index(s, d) ==
    IF \E i \in 1..Len(s) : s[i] = d
    THEN CHOOSE i \in 1..Len(s) : s[i] = d /\ \A j \in 1..(i - 1) : s[j] # d
    ELSE 0

\* bufio.Reader.ReadString: the bytes up to and including the first delim
ReadString(b, delim) ==
    IF Index(b, delim) = 0
    THEN [line |-> b, err |-> "EOF"]
    ELSE [line |-> SubSeq(b, 1, Index(b, delim)), err |-> "nil"]

\* strings.Split on a separator of one byte
RECURSIVE Split(_, _)
Split(s, sep) ==
    IF Index(s, sep) = 0 THEN <<s>>
    ELSE <<SubSeq(s, 1, Index(s, sep) - 1)>>
             \o Split(SubSeq(s, Index(s, sep) + 1, Len(s)), sep)

DigitChars == <<"0", "1", "2", "3", "4", "5", "6", "7", "8", "9">>

IsDigit(ch) == \E i \in 1..10 : DigitChars[i] = ch

DigitVal(ch) == (CHOOSE i \in 1..10 : DigitChars[i] = ch) - 1

RECURSIVE DecVal(_)
DecVal(s) ==
    IF s = <<>> THEN 0
    ELSE 10 * DecVal(SubSeq(s, 1, Len(s) - 1)) + DigitVal(s[Len(s)])

\* strconv.Atoi: an optional sign and one or more decimal digits
Atoi(s) ==
    LET signed == s # <<>> /\ s[1] \in {"+", "-"}
        body == IF signed THEN Tail(s) ELSE s
    IN IF body = <<>> \/ \E i \in 1..Len(body) : ~IsDigit(body[i])
       THEN [n |-> 0, err |-> "syntax"]
       ELSE [n |-> IF signed /\ s[1] = "-" THEN 0 - DecVal(body)
                   ELSE DecVal(body),
             err |-> "nil"]

\* strconv.Itoa of a natural number
RECURSIVE Itoa(_)
Itoa(n) ==
    IF n < 10 THEN <<DigitChars[n + 1]>>
    ELSE Itoa(n \div 10) \o <<DigitChars[(n % 10) + 1]>>

\* no address: a nil net.IP and a nil *net.TCPAddr
NoIP == [v |-> 0, a |-> <<>>]

NoAddr == [ip |-> NoIP, port |-> 0]

\* the IPv6 literals of the model and the addresses they denote
IP6Literals == {<<":", ":", "1">>, <<":", ":", "2">>}

\* net.ParseIP: four decimal fields of at most 255 separated by dots give an
\* IPv4 address, an IPv6 literal gives its address, anything else nil
ParseIP(s) ==
    LET f == Split(s, ".")
    IN IF /\ Len(f) = 4
          /\ \A i \in 1..4 : /\ f[i] # <<>>
                             /\ Len(f[i]) <= 3
                             /\ \A j \in 1..Len(f[i]) : IsDigit(f[i][j])
                             /\ DecVal(f[i]) <= 255
       THEN [v |-> 4, a |-> [i \in 1..4 |-> DecVal(f[i])]]
       ELSE IF s \in IP6Literals
       THEN [v |-> 6, a |-> <<DigitVal(s[3])>>]
       ELSE NoIP

UNKNOWN == <<"U", "N", "K", "N", "O", "W", "N">>

TCP4 == <<"T", "C", "P", "4">>

TCP6 == <<"T", "C", "P", "6">>

\* the field of the header line that holds the source port
srcPortFieldSwapped(parts) == parts[6]

srcPortField(parts) == parts[5]

\* checkPrefix on the bytes b = buf[:n] of its Read: the error it returns, the
\* addresses it sets, whether it writes to m.buf.buffer and calls doneSniffing
\* and the bytes it writes
checkPrefix(b) ==
    LET rs == ReadString(b, "\n")
        headerLine == rs.line
        header == SubSeq(headerLine, 1, Len(headerLine) - 2)
        parts == Split(header, " ")
        sip == ParseIP(parts[3])
        sport == Atoi(srcPortField(parts))
        dip == ParseIP(parts[4])
        dport == Atoi(parts[6])
        src == [ip |-> sip, port |-> sport.n]
        dst == [ip |-> dip, port |-> dport.n]
        ret(e, s, d, w, k) ==
            [err |-> e, src |-> s, dst |-> d, wrote |-> w, keep |-> k]
        fail(e) == ret(e, NoAddr, NoAddr, FALSE, <<>>)
    IN IF tagLoop(b, 1) = "EOF" THEN fail("EOF")
       ELSE IF tagLoop(b, 1) = "mismatch"
       THEN ret("nil", NoAddr, NoAddr, TRUE, b)
       ELSE IF rs.err # "nil" THEN fail(rs.err)
       ELSE IF Len(parts) < 2 THEN fail("invalid header line")
       ELSE IF parts[2] = UNKNOWN THEN fail("nil")
       ELSE IF parts[2] \notin {TCP4, TCP6}
       THEN fail("unhandled address type")
       ELSE IF Len(parts) # 6 THEN fail("invalid header line")
       ELSE IF sip = NoIP THEN fail("invalid source ip")
       ELSE IF sport.err # "nil" THEN fail("invalid source port")
       ELSE IF dip = NoIP
       THEN ret("invalid destination ip", src, NoAddr, FALSE, <<>>)
       ELSE IF dport.err # "nil"
       THEN ret("invalid destination port", src, NoAddr, FALSE, <<>>)
       ELSE IF Len(b) # Len(headerLine)
       THEN ret("nil", src, dst, TRUE,
                SubSeq(b, Len(headerLine) + 1, Len(b)))
       ELSE ret("nil", src, dst, FALSE, <<>>)

\* the addresses of the raw connection
RawRemote == [ip |-> [v |-> 4, a |-> <<127, 0, 0, 1>>], port |-> 40000]

RawLocal == [ip |-> [v |-> 4, a |-> <<127, 0, 0, 1>>], port |-> 8080]

RemoteAddr == IF srcAddr # NoAddr THEN srcAddr ELSE RawRemote

LocalAddr == IF dstAddr # NoAddr THEN dstAddr ELSE RawLocal

CRLF == <<"\r", "\n">>

SP == <<" ">>

IP4Src == <<"1", ".", "2", ".", "3", ".", "4">>

IP4Dst == <<"1", "0", ".", "0", ".", "0", ".", "2", "5", "5">>

\* the TCP4 and TCP6 headers a proxy sends: the family, the two addresses as
\* literals and the two ports as numbers
TCPHeaders ==
    [fam : {TCP4, TCP6},
     src : {IP4Src, <<":", ":", "1">>},
     dst : {IP4Dst, <<":", ":", "2">>},
     sport : {7, 1234},
     dport : {80}]

\* the header line a proxy writes for h
Line(h) ==
    prefix \o h.fam \o SP \o h.src \o SP \o h.dst \o SP \o Itoa(h.sport)
        \o SP \o Itoa(h.dport) \o CRLF

\* the header lines with the family UNKNOWN
UnknownLines ==
    {prefix \o UNKNOWN \o CRLF,
     prefix \o UNKNOWN \o SP \o <<":", ":", "1">> \o SP \o <<":", ":", "2">>
         \o SP \o <<"7">> \o SP \o <<"8">> \o CRLF}

\* lines with the tag that are no header: a field missing, an address or a
\* port that does not parse, another family, no carriage return, no line end
BadLines ==
    {prefix \o TCP4 \o SP \o IP4Src \o SP \o IP4Dst \o SP \o <<"7">> \o CRLF,
     prefix \o TCP4 \o SP \o <<"x">> \o SP \o IP4Dst \o SP \o <<"7">> \o SP
         \o <<"8">> \o CRLF,
     prefix \o TCP4 \o SP \o IP4Src \o SP \o <<"x">> \o SP \o <<"7">> \o SP
         \o <<"8">> \o CRLF,
     prefix \o TCP4 \o SP \o IP4Src \o SP \o IP4Dst \o SP \o <<"x">> \o SP
         \o <<"8">> \o CRLF,
     prefix \o TCP4 \o SP \o IP4Src \o SP \o IP4Dst \o SP \o <<"7">> \o SP
         \o <<"x">> \o CRLF,
     prefix \o <<"U", "D", "P", "4">> \o SP \o IP4Src \o SP \o IP4Dst \o SP
         \o <<"7">> \o SP \o <<"8">> \o CRLF,
     prefix \o UNKNOWN \o <<"\n">>,
     prefix \o UNKNOWN}

\* leading bytes that are not the tag
NoTag ==
    {<<>>, <<"P">>, <<"P", "R">>, <<"P", "R", "O", "X", "Y">>,
     <<"P", "R", "O", "X", "X", " ">>, <<"P", "R", "I", " ", "*">>,
     <<"G", "E", "T", " ", "/">>}

\* the bytes that follow on the connection
Payloads == {Take(<<"x", "y", "z">>, n) : n \in 0..MaxPayload}

PxStreams ==
    {l \o p : l \in {Line(h) : h \in TCPHeaders} \cup UnknownLines
                        \cup BadLines \cup NoTag,
              p \in Payloads}

\* doneSniffing: later reads start at the first byte kept
doneSniffing(b) == resetRead(b)

\* a peer connects and sends s; newMuxConn wraps the connection
PxDial(s) ==
    /\ pxPc = "new"
    /\ pxStream' = s
    /\ pxConn' = s
    /\ pxBuffer' = [data |-> <<>>, read |-> 0]
    /\ pxPc' = "conn"
    /\ UNCHANGED <<mainVars, bufVars, ptVars, dVars, xVars, pxBuf, srcAddr, dstAddr,
                   pxErr, pxGot>>

\* checkPrefix, whose Read returns the next n bytes of the connection
PxCheckPrefix(n) ==
    /\ pxPc = "conn"
    /\ IF pxConn = <<>> THEN n = 0
       ELSE n \in 1..Min(defaultBufSize, Len(pxConn))
    /\ LET b == Take(pxConn, n)
           r == checkPrefix(b)
       IN /\ pxBuf' = b
          /\ pxConn' = SubSeq(pxConn, n + 1, Len(pxConn))
          /\ pxBuffer' = IF r.wrote
                         THEN doneSniffing(bufWrite(pxBuffer, r.keep))
                         ELSE pxBuffer
          /\ srcAddr' = r.src
          /\ dstAddr' = r.dst
          /\ pxErr' = r.err
    /\ pxPc' = "checked"
    /\ UNCHANGED <<mainVars, bufVars, ptVars, dVars, xVars, pxStream, pxGot>>

\* the bytes kept for later reads and not yet read
PxKept == SubSeq(pxBuffer.data, pxBuffer.read + 1, Len(pxBuffer.data))

\* a Read of the connection after checkPrefix, into a slice of n bytes: the
\* bytes kept first, then k bytes of the net.Conn
PxRead(n, k) ==
    /\ pxPc = "checked"
    /\ PxKept \o pxConn # <<>>
    /\ LET br == bufRead(pxBuffer, n)
           n1 == Len(br.bytes)
       IN /\ pxBuffer' = br.buf
          /\ IF n1 = n \/ ~br.eof
             THEN /\ k = 0
                  /\ pxGot' = pxGot \o br.bytes
                  /\ UNCHANGED pxConn
             ELSE /\ k \in 1..Min(n - n1, Len(pxConn))
                  /\ pxGot' = pxGot \o readJoin(br.bytes, Take(pxConn, k))
                  /\ pxConn' = SubSeq(pxConn, k + 1, Len(pxConn))
    /\ UNCHANGED <<mainVars, bufVars, ptVars, dVars, xVars, pxStream, pxBuf, srcAddr,
                   dstAddr, pxErr, pxPc>>

PxNext ==
    \/ \E s \in PxStreams : PxDial(s)
    \/ \E n \in 0..defaultBufSize : PxCheckPrefix(n)
    \/ \E n \in 1..MaxRead, k \in 0..MaxRead : PxRead(n, k)

PxSpec == BufInit /\ [][PxNext]_vars

\* the bytes the reads after checkPrefix have returned and can still return
PxAvail == pxGot \o PxKept \o pxConn

\* the addresses the literals of the headers denote
AddrOf(l) ==
    IF l = IP4Src THEN [v |-> 4, a |-> <<1, 2, 3, 4>>]
    ELSE IF l = IP4Dst THEN [v |-> 4, a |-> <<10, 0, 0, 255>>]
    ELSE IF l = <<":", ":", "1">> THEN [v |-> 6, a |-> <<1>>]
    ELSE [v |-> 6, a |-> <<2>>]

NoTagKeepsBytes ==
    (pxPc = "checked" /\ pxBuf # <<>> /\ ~IsPrefix(prefix, pxStream)) =>
        /\ pxErr = "nil"
        /\ srcAddr = NoAddr /\ dstAddr = NoAddr
        /\ RemoteAddr = RawRemote /\ LocalAddr = RawLocal
        /\ PxAvail = pxStream

\* C26: when checkPrefix has read a header line and returned no error, the
\* reads after it return the bytes that follow the line on the connection,
\* each once, and a header UNKNOWN sets no address
PayloadKept ==
    (pxPc = "checked" /\ pxErr = "nil" /\ tagLoop(pxBuf, 1) = "tag") =>
        LET line == ReadString(pxBuf, "\n").line
        IN /\ PxAvail = SubSeq(pxStream, Len(line) + 1, Len(pxStream))
           /\ IsPrefix(prefix \o UNKNOWN, line) =>
                 (srcAddr = NoAddr /\ dstAddr = NoAddr)

(***************************************************************************)
(* The version of the multiplexer with a done channel per listener: Serve  *)
(* closes every donec when it returns and waits for no worker, and serve   *)
(* and Accept select between connc and donec.  Routes, the accept loop and *)
(* the matching are those of the sections above; wg only counts the        *)
(* workers that run.                                                        *)
(***************************************************************************)

\* Serve returns: the deferred loop closes the donec of every listener
DServeReturn ==
    /\ servePc = "wait"
    /\ donec' = Routes
    /\ servePc' = "returned"
    /\ UNCHANGED <<muxVars, chanVars, rootOpen, serveErr, wg, offered,
                   connVars, connClosed, wk, histVars, accVars, bufVars,
                   ptVars, pxVars, xVars>>

\* serve, case <-sl.l.donec of the select: the connection is closed
DSendDone(c) ==
    /\ wk[c].pc = "send"
    /\ wk[c].ri \in donec
    /\ connClosed' = [connClosed EXCEPT ![c] = TRUE]
    /\ wk' = [wk EXCEPT ![c] = Finished(c)]
    /\ wg' = wg - 1
    /\ UNCHANGED <<muxVars, chanVars, rootOpen, servePc, serveErr, offered,
                   connVars, histVars, accVars,
                   testVars>>

\* serve, case sl.l.connc <- muc of the select, taken by an Accept that
\* waits: a closed donec has woken every Accept that waited
DHandoff(c) ==
    /\ wk[c].ri \notin donec
    /\ Handoff(c)

\* Accept, case <-l.donec of the select
DAcceptDone(r) ==
    /\ r \in Routes
    /\ acc[r]
    /\ r \in donec
    /\ accErr' = [accErr EXCEPT ![r] = TRUE]
    /\ acc' = [acc EXCEPT ![r] = FALSE]
    /\ UNCHANGED <<muxVars, chanVars, rootOpen, serveVars, connVars,
                   connClosed, wk, histVars, accepted, lclosed,
                   testVars>>

DoneNext ==
    \/ \E ms \in MatcherLists : Match(ms)
    \/ ServeStart
    \/ \E c \in Conns, s \in Streams : ServeAccept(c, s)
    \/ \E e \in Errors : ServeAcceptErr(e)
    \/ DServeReturn
    \/ \E c \in Conns, k \in 0..MaxRead : MatcherRead(c, k)
    \/ \E c \in Conns : MatcherReturn(c)
    \/ \E c \in Conns : Send(c)
    \/ \E c \in Conns : DHandoff(c)
    \/ \E c \in Conns : DSendDone(c)
    \/ \E c \in Conns : NoMatch(c)
    \/ \E r \in 1..MaxRoutes : AcceptCall(r)
    \/ \E r \in 1..MaxRoutes : AcceptRecv(r)
    \/ \E r \in 1..MaxRoutes : DAcceptDone(r)

DoneSpec == Init /\ [][DoneNext]_vars

\* C27: a worker that has matched a connection to a route whose donec is
\* closed can take a step, its step closes the connection and ends the
\* worker without passing the connection on, and an Accept of a listener
\* whose donec is closed returns ErrListenerClosed
ClosedListenerHandoff ==
    /\ [](\A c \in Conns :
             (wk[c].pc = "send" /\ wk[c].ri \in donec)
                 => ENABLED (DoneNext /\ wk'[c] # wk[c]))
    /\ [][\A c \in Conns :
             (wk[c].pc = "send" /\ wk[c].ri \in donec /\ wk'[c] # wk[c])
                 => /\ wk'[c].pc = "done"
                    /\ connClosed'[c]
                    /\ enq'[c] = enq[c]]_vars
    /\ [][\A r \in Routes :
             (acc[r] /\ r \in donec /\ ~acc'[r]) => accErr'[r]]_vars

\* C34: when checkPrefix has returned an error, neither address is set:
\* RemoteAddr and LocalAddr are those of the raw connection
ErrorSetsNoAddr ==
    (pxPc = "checked" /\ pxErr # "nil") =>
        /\ srcAddr = NoAddr /\ dstAddr = NoAddr
        /\ RemoteAddr = RawRemote /\ LocalAddr = RawLocal

(***************************************************************************)
(* Shutdown with connections in the queues: a Mux whose queues hold        *)
(* QueueLen connections, and the queues recorded when Serve returns.       *)
(***************************************************************************)

QueueLen == 2

\* Serve returns, as ServeReturn; atExit keeps the queues of that moment
QServeReturn ==
    /\ servePc = "wait"
    /\ wgWait
    /\ chClosed' = closeAll
    /\ servePc' = "returned"
    /\ atExit' = connc
    /\ UNCHANGED <<muxVars, connc, rootOpen, serveErr, wg, offered, connVars,
                   connClosed, wk, histVars, accVars, bufVars, ptVars, pxVars,
                   dVars, brVars, pcVars>>

QueueNext ==
    \/ \E ms \in MatcherLists : Match(ms)
    \/ ServeStart
    \/ \E c \in Conns, s \in Streams : ServeAccept(c, s)
    \/ \E e \in Errors : ServeAcceptErr(e)
    \/ QServeReturn
    \/ \E c \in Conns, k \in 0..MaxRead : MatcherRead(c, k)
    \/ \E c \in Conns : MatcherReturn(c)
    \/ \E c \in Conns : Send(c)
    \/ \E c \in Conns : Handoff(c)
    \/ \E c \in Conns : NoMatch(c)
    \/ \E r \in 1..MaxRoutes : AcceptCall(r)
    \/ \E r \in 1..MaxRoutes : AcceptRecv(r)
    \/ \E r \in 1..MaxRoutes : AcceptClosed(r)

QueueSpec == InitWith(QueueLen) /\ [][QueueNext]_vars

\* C35: after Serve has returned, on every route the connections that were
\* in the queue then are either still in the queue or are the last ones
\* Accept returned, in the order of the queue, and Accept has returned
\* ErrListenerClosed only with all of them returned
QueuedSurviveShutdown ==
    servePc = "returned" =>
        \A r \in Routes :
            \E k \in 0..Len(atExit[r]) :
                /\ connc[r] = SubSeq(atExit[r], k + 1, Len(atExit[r]))
                /\ k <= Len(accepted[r])
                /\ SubSeq(accepted[r], Len(accepted[r]) - k + 1,
                          Len(accepted[r])) = SubSeq(atExit[r], 1, k)
                /\ accErr[r] => k = Len(atExit[r])

\* Serve returned with two connections in the queue of a route; Accept has
\* returned both in that order and then ErrListenerClosed
QueuedSurviveWitness ==
    /\ servePc = "returned"
    /\ \E r \in Routes :
          /\ Len(atExit[r]) = 2
          /\ accepted[r] = atExit[r]
          /\ connc[r] = <<>>
          /\ accErr[r]

(***************************************************************************)
(* bufferedReader: Read and reset.  rbuf shares the array of buf; nothing  *)
(* is written to buf after buf.Reset(), so rbuf is kept as its bytes.      *)
(***************************************************************************)

\* the sources a bufferedReader is created on
BrStreams == UNION {[1..n -> Bytes] : n \in 0..MaxData}

\* buf after reset(snif): buf.Reset() empties it when sniffing ends
bufAfterResetAlways(snif, b) == <<>>

bufAfterReset(snif, b) == IF snif THEN b ELSE <<>>

\* src after reset(snif): the source itself when sniffing ends, a TeeReader
\* into buf when src was nil, else what it was
srcAfterReset(snif, s) ==
    IF ~snif THEN "source" ELSE IF s = "nil" THEN "tee" ELSE s

\* bufferedReader{source: s}
BrNew(s) ==
    /\ ~brHist.made
    /\ brStream' = s
    /\ brSource' = s
    /\ brHist' = [brHist EXCEPT !.made = TRUE]
    /\ UNCHANGED <<mainVars, bufVars, ptVars, pxVars, dVars, qVars, pcVars,
                   brPulled, brSrc, brBuf, brRbuf, brOff, brOut>>

\* reset(snif)
BrReset(snif) ==
    /\ brHist.made
    /\ ~brHist.panic
    /\ brOff' = 0
    /\ brRbuf' = brBuf
    /\ brSrc' = srcAfterReset(snif, brSrc)
    /\ brBuf' = bufAfterReset(snif, brBuf)
    /\ brHist' = [brHist EXCEPT !.off = @ \/ ~snif]
    /\ brOut' = IF brHist.off THEN brOut ELSE <<>>
    /\ UNCHANGED <<mainVars, bufVars, ptVars, pxVars, dVars, qVars, pcVars,
                   brStream, brSource, brPulled>>

\* Read into a slice of n bytes: the next bytes of rbuf while it has some,
\* else a Read of src that returns k bytes
BrRead(n, k) ==
    /\ brHist.made
    /\ ~brHist.panic
    /\ IF Len(brRbuf) > 0 /\ brOff < Len(brRbuf)
       THEN /\ k = Min(n, Len(brRbuf) - brOff)
            /\ brOff' = brOff + k
            /\ brOut' = brOut \o SubSeq(brRbuf, brOff + 1, brOff + k)
            /\ UNCHANGED <<brRbuf, brSource, brPulled, brBuf, brHist>>
       ELSE /\ brRbuf' = <<>>
            /\ IF brSrc = "nil"
               THEN /\ k = 0
                    /\ brHist' = [brHist EXCEPT !.panic = TRUE]
                    /\ UNCHANGED <<brSource, brPulled, brBuf, brOut, brOff>>
               ELSE /\ IF brSource = <<>> THEN k = 0
                       ELSE k \in 1..Min(n, Len(brSource))
                    /\ brSource' = SubSeq(brSource, k + 1, Len(brSource))
                    /\ brPulled' = brPulled \o Take(brSource, k)
                    /\ brOut' = brOut \o Take(brSource, k)
                    /\ brBuf' = IF brSrc = "tee"
                                THEN brBuf \o Take(brSource, k)
                                ELSE brBuf
                    /\ UNCHANGED <<brHist, brOff>>
    /\ UNCHANGED <<mainVars, bufVars, ptVars, pxVars, dVars, qVars, pcVars,
                   brStream, brSrc>>

BrNext ==
    \/ \E s \in BrStreams : BrNew(s)
    \/ \E snif \in BOOLEAN : BrReset(snif)
    \/ \E n \in 1..MaxRead, k \in 0..MaxRead : BrRead(n, k)

BrSpec == BufInit /\ [][BrNext]_vars

\* C32: while src is the TeeReader, buf holds the bytes read from the source
\* so far, in order and each once; while src is the source itself, nothing is
\* in buf
SniffStoreExact ==
    /\ brPulled \o brSource = brStream
    /\ brSrc = "tee" => brBuf = brPulled
    /\ brSrc = "source" => brBuf = <<>>

\* the reader sniffs, has replayed two bytes after a reset and has read a
\* third from the source since: buf holds the three
SniffStoreWitness ==
    /\ brSrc = "tee"
    /\ Len(brRbuf) = 0
    /\ brOff = 2
    /\ Len(brOut) = 3
    /\ brOut = brBuf
    /\ brBuf = brStream
    /\ brBuf[1] # brBuf[2]

\* C33: once reset(false) was called, src stays the source itself, buf stays
\* empty, and the Reads since return the bytes of the source from the first
\* one on, each once: those captured before, then those read after
SniffOffOneWay ==
    brHist.off =>
        /\ brSrc = "source"
        /\ brBuf = <<>>
        /\ brOut \o SubSeq(brRbuf, brOff + 1, Len(brRbuf)) \o brSource
              = brStream

(***************************************************************************)
(* Concurrent calls of matchPrefix and match on one patriciaTree: t.mu and *)
(* the shared buffer t.mu.buf.                                             *)
(***************************************************************************)

\* the candidate lists of the trees the callers share
PcCands == {<<<<"a", "b">>, <<"b">>>>, <<<<"a">>>>}

\* the bytes a caller's reader has when the call starts; its peer may be
\* silent after them or have closed
PcStreams == Strings(MaxStream)

\* Lock returns only while no caller holds the mutex
lockAny(mu) == TRUE

lockFree(mu) == mu = 0

\* an index out of range in one call ends the program
NoCrash == \A c \in Conns : ptCall[c].out # "panic"

\* ReadFull has filled the buffer or met the end of the reader
ReadFullDone(c) ==
    \/ ptCall[c].n = Len(ptMuBuf)
    \/ ptArrived[c] = <<>> /\ ptEof[c]

\* newPatriciaTree: the tree and its buffer of max+1 zero bytes
PcNew(bs) ==
    /\ ptPc = "new"
    /\ ptBs' = bs
    /\ ptTree' = newNode(bs)
    /\ ptMuBuf' = [i \in 1..ptBufLen(bs) |-> "0"]
    /\ ptPc' = "built"
    /\ UNCHANGED <<mainVars, bufVars, pxVars, dVars, qVars, brVars, ptStream,
                   ptOut, ptMu, ptCall, ptArrived, ptEof, ptTook>>

\* a worker calls matchPrefix (pm) or match on a reader that has the bytes
\* s, at its end or not
PcCall(c, s, e, pm) ==
    /\ ptPc = "built"
    /\ NoCrash
    /\ ptCall[c].pc = "idle"
    /\ ptCall' = [ptCall EXCEPT ![c].pc = "lock", ![c].prefix = pm]
    /\ ptArrived' = [ptArrived EXCEPT ![c] = s]
    /\ ptEof' = [ptEof EXCEPT ![c] = e]
    /\ UNCHANGED <<mainVars, bufVars, ptVars, pxVars, dVars, qVars, brVars,
                   ptMu, ptMuBuf, ptTook>>

\* t.mu.Lock() returns
PcLock(c) ==
    /\ NoCrash
    /\ ptCall[c].pc = "lock"
    /\ lockFree(ptMu)
    /\ ptMu' = c
    /\ ptCall' = [ptCall EXCEPT ![c].pc = "read"]
    /\ UNCHANGED <<mainVars, bufVars, ptVars, pxVars, dVars, qVars, brVars,
                   ptMuBuf, ptArrived, ptEof, ptTook>>

\* io.ReadFull: one Read of the reader puts its next k bytes into t.mu.buf
PcRead(c, k) ==
    /\ NoCrash
    /\ ptCall[c].pc = "read"
    /\ ~ReadFullDone(c)
    /\ k \in 1..Min(Len(ptArrived[c]), Len(ptMuBuf) - ptCall[c].n)
    /\ ptMuBuf' = [i \in 1..Len(ptMuBuf) |->
                      IF i > ptCall[c].n /\ i <= ptCall[c].n + k
                      THEN ptArrived[c][i - ptCall[c].n]
                      ELSE ptMuBuf[i]]
    /\ ptCall' = [ptCall EXCEPT ![c].n = @ + k]
    /\ ptTook' = [ptTook EXCEPT ![c] = @ \o Take(ptArrived[c], k)]
    /\ ptArrived' = [ptArrived EXCEPT ![c] = SubSeq(@, k + 1, Len(@))]
    /\ UNCHANGED <<mainVars, bufVars, ptVars, pxVars, dVars, qVars, brVars,
                   ptMu, ptEof>>

\* t.root.match(t.mu.buf[:n], prefix)
PcWalk(c) ==
    /\ NoCrash
    /\ ptCall[c].pc = "read"
    /\ ReadFullDone(c)
    /\ ptCall' = [ptCall EXCEPT
                     ![c].out = ptNodeMatch(ptTree,
                                            SubSeq(ptMuBuf, 1, ptCall[c].n),
                                            ptCall[c].prefix),
                     ![c].pc = "ret"]
    /\ UNCHANGED <<mainVars, bufVars, ptVars, pxVars, dVars, qVars, brVars,
                   ptMu, ptMuBuf, ptArrived, ptEof, ptTook>>

\* the deferred t.mu.Unlock(), and the call is over
PcUnlock(c) ==
    /\ ptCall[c].pc = "ret"
    /\ ptMu' = 0
    /\ ptCall' = [ptCall EXCEPT ![c].pc = "done"]
    /\ UNCHANGED <<mainVars, bufVars, ptVars, pxVars, dVars, qVars, brVars,
                   ptMuBuf, ptArrived, ptEof, ptTook>>

\* the peer of a caller's connection closes it
PcClose(c) ==
    /\ NoCrash
    /\ ptCall[c].pc \in {"lock", "read"}
    /\ ~ptEof[c]
    /\ ptEof' = [ptEof EXCEPT ![c] = TRUE]
    /\ UNCHANGED <<mainVars, bufVars, ptVars, pxVars, dVars, qVars, brVars,
                   ptMu, ptMuBuf, ptCall, ptArrived, ptTook>>

PcNext ==
    \/ \E bs \in PcCands : PcNew(bs)
    \/ \E c \in Conns, s \in PcStreams, e \in BOOLEAN, pm \in BOOLEAN :
           PcCall(c, s, e, pm)
    \/ \E c \in Conns : PcLock(c)
    \/ \E c \in Conns, k \in 1..MaxStream : PcRead(c, k)
    \/ \E c \in Conns : PcWalk(c)
    \/ \E c \in Conns : PcUnlock(c)
    \/ \E c \in Conns : PcClose(c)

PcSpec == BufInit /\ [][PcNext]_vars

\* C31: at most one call is between its Lock and its Unlock, it is the one
\* that holds t.mu, and what a call returns is what ptNode.match gives on
\* the bytes the call read from its own reader
ScratchExclusive ==
    /\ \A c \in Conns :
          ptCall[c].pc \in {"read", "ret"} =>
              /\ ptMu = c
              /\ \A d \in Conns \ {c} : ptCall[d].pc \notin {"read", "ret"}
    /\ \A c \in Conns :
          ptCall[c].out # "none" =>
              ptCall[c].out = ptNodeMatch(ptTree, ptTook[c], ptCall[c].prefix)

\* two calls on the tree of "ab" and "b" are over, on different bytes and
\* with different answers
ScratchExclusiveWitness ==
    /\ Len(ptBs) = 2
    /\ \A c \in Conns : ptCall[c].pc = "done" /\ ptTook[c] # <<>>
    /\ ptTook[1] # ptTook[2]
    /\ ptCall[1].out = "true"
    /\ ptCall[2].out = "false"

\* C36: a call whose reader has all the bytes the call reads, or is at its
\* end, can take the lock although another call waits for bytes of its own
\* reader
IndependentDispatch ==
    \A c \in Conns :
        (/\ ptCall[c].pc = "lock"
         /\ (Len(ptArrived[c]) >= Len(ptMuBuf) \/ ptEof[c])
         /\ \E d \in Conns \ {c} :
               /\ ptCall[d].pc = "read"
               /\ ~ReadFullDone(d)
               /\ ptArrived[d] = <<>>)
            => ENABLED PcLock(c)

=============================================================================
